---- MODULE Spec2Model ----
(***************************************************************************)
(* Migration backend: the session registry and the HTTP handlers of the   *)
(* server (part_000, the later revision of backend/server.js), and the    *)
(* pipeline of the migration service (part_001, the later revision of     *)
(* backend/services/migration.service.js).                                *)
(*                                                                         *)
(* One action is one uninterrupted run of JavaScript: a request handler,  *)
(* or the continuation that runs when an awaited child process exits or a *)
(* timer fires, together with every continuation of an already settled    *)
(* promise that the same microtask drain executes.                        *)
(***************************************************************************)
EXTENDS Integers, Sequences, FiniteSets, TLC

\* ------------------------------------------------------------------ bounds
MaxRequests == 3   \* client requests (start, subscribe, download) in a behaviour
FaultRequests == 2 \* client requests in a world where the pipeline's commands may fail
MaxPending == 2    \* start handlers suspended at the pre-validation await, per session
MaxAttempts == 2   \* readiness attempts explored (the code's default is 120)
MaxPasswordLen == 3 \* characters of a password whose escaping is explored

\* ------------------------------------------------------- program constants
SparseEvery == 10  \* "attempt % 10 === 0"
FirstFew == 3      \* "attempt <= 3"

Sessions == {"m1", "m2"}    \* migration ids (uuidv4 values)

\* null and undefined; every text is a sequence of strings
null == <<>>

RequiredEnvVars ==
  <<"MYSQL_HOST", "MYSQL_USER", "MYSQL_ROOT_PASSWORD", "MYSQL_ROOT",
    "POSTGRES_HOST", "POSTGRES_USER", "POSTGRES_PASSWORD", "POSTGRES_DB",
    "MYSQL_PORT_INTERNAL", "POSTGRES_PORT_INTERNAL">>

\* Behaviours of the environment that a world may exhibit.
FaultKinds ==
  {"slowValidate", "sameInstant", "connBreak", "abort",
   "envFile", "copy", "up", "health", "mount", "mysqlCheck", "pgloader",
   "verifyPg", "pgdump", "composeV2", "composeV1", "down"}

VARIABLES
  world,       \* the environment of this behaviour (never changes)
  migrations,  \* const migrations = new Map(): id -> session record
  validating,  \* id -> number of start handlers suspended at "await preValidateSqlDump"
  runs,        \* id -> sequence of startMigration calls (the i-th call of the session)
  logFile,     \* id -> content of migration.logPath (sequence of entries)
  files,       \* id -> which session-scoped artifacts exist on disk
  conns,       \* sequence of SSE responses, in order of connection
  lastId,      \* the last value Date.now() returned to a subscription
  downloads,   \* sequence of download responses
  sent,        \* id -> the events the latest continuation handed to the clients
  requests,    \* number of client requests handled so far
  lastResp     \* the last HTTP response sent (history)

vars == <<world, migrations, validating, runs, logFile, files, conns, lastId,
          downloads, sent, requests, lastResp>>

\* ------------------------------------------------------------------ helpers
Registered == DOMAIN migrations

Range(f) == {f[i] : i \in DOMAIN f}

Fault(k) == k \in world.faults

\* The events of a spawned child, in the order the event loop delivers them:
\* 'data' of child.stdout or child.stderr, 'close' with the exit code, 'error'.
DataEvent(stream, text) == [type |-> "data", stream |-> stream, text |-> text, code |-> 0]
CloseEvent(code) == [type |-> "close", stream |-> "", text |-> <<>>, code |-> code]
ErrorEvent(message) == [type |-> "error", stream |-> "", text |-> message, code |-> 0]

\* errno of a command that cannot be started (ENOENT); the child then emits
\* 'error' and, its streams being closed, 'close' with that code
Enoent == 0 - 2

\* What a child may do: exit with code 0; and, where the world lets the
\* command fail, exit with another code or not start at all.
Succeeding ==
  {<<DataEvent("stdout", <<"o1">>), DataEvent("stderr", <<"w1">>),
     DataEvent("stdout", <<"o2">>), CloseEvent(0)>>}

Failing ==
  {<<DataEvent("stderr", <<"e1">>), DataEvent("stdout", <<"o1">>),
     DataEvent("stderr", <<"e2">>), CloseEvent(1)>>,
   <<ErrorEvent(<<"spawn ENOENT">>), CloseEvent(Enoent)>>}

ChildEvents(k) == Succeeding \cup (IF Fault(k) THEN Failing ELSE {})

\* what the child did, whatever the chunks its output came in: whether it
\* started, its exit code, and all it wrote to each stream
RECURSIVE Written(_, _)
Written(events, stream) ==
  IF events = <<>> THEN <<>>
  ELSE (IF Head(events).type = "data" /\ Head(events).stream = stream
        THEN Head(events).text ELSE <<>>) \o Written(Tail(events), stream)

ChildFacts(events) ==
  [started |-> \A i \in DOMAIN events : events[i].type # "error",
   code |-> events[Len(events)].code,
   stdout |-> Written(events, "stdout"), stderr |-> Written(events, "stderr")]

\* the promise execProcess returns, with the captured output so far
NewPromise ==
  [state |-> "pending", isError |-> FALSE, code |-> 0, stdout |-> <<>>, stderr |-> <<>>,
   message |-> <<>>, capturedOut |-> <<>>, capturedErr |-> <<>>]

\* a promise that takes the value of the last call of resolve or reject
SettleLast(p, state, isError, code, message) ==
  [p EXCEPT !.state = state, !.isError = isError, !.code = code,
            !.stdout = IF isError THEN <<>> ELSE p.capturedOut,
            !.stderr = IF isError THEN <<>> ELSE p.capturedErr,
            !.message = message]

\* resolve(value) and reject(value): only the first call settles the promise
SettleOnce(p, state, isError, code, message) ==
  IF p.state # "pending" THEN p
  ELSE [p EXCEPT !.state = state, !.isError = isError, !.code = code,
                 !.stdout = IF isError THEN <<>> ELSE p.capturedOut,
                 !.stderr = IF isError THEN <<>> ELSE p.capturedErr,
                 !.message = message]

\* the listeners execProcess installs
OnChildEvent(p, e) ==
  IF e.type = "data"
  THEN IF e.stream = "stdout" THEN [p EXCEPT !.capturedOut = @ \o e.text]
       ELSE [p EXCEPT !.capturedErr = @ \o e.text]
  ELSE IF e.type = "close"
  THEN IF e.code = 0 THEN SettleOnce(p, "resolved", FALSE, e.code, <<>>)
       ELSE SettleOnce(p, "rejected", FALSE, e.code, <<>>)
  ELSE SettleOnce(p, "rejected", TRUE, Enoent, e.text)

RECURSIVE Deliver(_, _)
Deliver(p, events) ==
  IF events = <<>> THEN p ELSE Deliver(OnChildEvent(p, Head(events)), Tail(events))

\* execProcess(command, args, options), for a child that emits these events
execProcess(events) == Deliver(NewPromise, events)

\* how the awaiting caller sees the settled promise: the await returns, or
\* throws the rejected object, or throws the spawn Error
\* every child of the model with the promise execProcess returns for it
Executions ==
  [events \in Succeeding \cup Failing |->
     [child |-> ChildFacts(events), promise |-> execProcess(events)]]

Outcome(events) ==
  LET p == Executions[events].promise
  IN IF p.state = "resolved" THEN "ok" ELSE IF p.isError THEN "spawn" ELSE "nonzero"

\* execProcess settles in one of three ways: resolve {code: 0, ...}, reject
\* {code, stdout, stderr} on a non-zero exit, reject the spawn Error.
ExecOutcomes(k) == {Outcome(events) : events \in ChildEvents(k)}

\* err.message of an execProcess rejection: the rejected object of a non-zero
\* exit has no message property.
ErrMessage(out) == IF out = "spawn" THEN <<"spawn ENOENT">> ELSE null

\* err.message || fallback
OrElse(v, fallback) == IF v = null THEN fallback ELSE v

\* Logger.log builds {type: 'log', timestamp, level, message}; the run index
\* stands for the timestamp (it tells the entries of two Logger instances apart).
LogEntry(r, level, message) ==
  [type |-> "log", run |-> r, level |-> level, message |-> message]

Info(r, m) == LogEntry(r, "INFO", <<m>>)
Warn(r, m) == LogEntry(r, "WARN", <<m>>)
Error(r, m) == LogEntry(r, "ERROR", <<m>>)

\* a template literal: fixed text followed by interpolated text
InfoWith(r, m, text) == LogEntry(r, "INFO", <<m>> \o text)
WarnWith(r, m, text) == LogEntry(r, "WARN", <<m>> \o text)
ErrorWith(r, m, text) == LogEntry(r, "ERROR", <<m>> \o text)

StatusEvent(data) == [type |-> "status", data |-> data]

\* `migration-${migrationId}`: the compose project of a session
ProjectName(id) == "migration-" \o id

\* the containers of the project, as the service addresses them
ContainerNames(id) ==
  {ProjectName(id) \o "-mysql-source-1", ProjectName(id) \o "-postgres-target-1",
   ProjectName(id) \o "-pgloader-1"}

\* path.join(DOCKER_COMPOSE_PATH, 'sql-dump', migrationId)
DumpDir(id) == <<"containers", "sql-dump", id>>

\* path.join(configDir, `load-${migrationId}.load`)
ConfigPath(id) == <<"containers", "migration", "load-" \o id \o ".load">>

\* a log file shared by every session
LogPathShared(id) == <<"logs", "migration.log">>

\* path.join(LOGS_DIR, `${migrationId}.log`)
LogPath(id) == <<"logs", id \o ".log">>

\* path.join(outputDir, `postgres_dump_${migrationId}.sql`) as <<directory, name>>
OutputPath(id) == <<"containers/output", "postgres_dump_" \o id \o ".sql">>

\* migration.outputFile ? path.basename(migration.outputFile) : null
Basename(f) == IF f = null THEN null ELSE <<f[Len(f)]>>

\* A credential is the sequence of its characters.
ReservedChars == <<":", "'", "@", "/", "?", "#", "[", "]">>

\* c.charCodeAt(0).toString(16).toUpperCase()
HexCode(c) ==
  CASE c = ":" -> <<"3", "A">> [] c = "'" -> <<"2", "7">> [] c = "@" -> <<"4", "0">>
    [] c = "/" -> <<"2", "F">> [] c = "?" -> <<"3", "F">> [] c = "#" -> <<"2", "3">>
    [] c = "[" -> <<"5", "B">> [] c = "]" -> <<"5", "D">>

\* an escaping that leaves every character as it is
encodeCredentialsPlain(str) == str

\* encodeCredentials: '' for an empty value, else every character of
\* [:'@/?#\[\]] replaced by its percent code
RECURSIVE encodeCredentials(_)
encodeCredentials(str) ==
  IF str = <<>> THEN <<>>
  ELSE (IF Head(str) \in Range(ReservedChars) THEN <<"%">> \o HexCode(Head(str))
        ELSE <<Head(str)>>) \o encodeCredentials(Tail(str))

\* The content of a dump file: its whitespace-separated tokens, a token in
\* backticks being marked quoted.
Word(text) == [text |-> text, quoted |-> FALSE]
Quoted(text) == [text |-> text, quoted |-> TRUE]

\* a keyword under the /i flag
Keyword(tok, upper, lower) == ~tok.quoted /\ tok.text \in {upper, lower}

\* /USE\s+.../i is not anchored: it matches the end of any unquoted token
UseEndings == {"USE", "use", "because"}

\* the leftmost match of a pattern
Leftmost(S) == CHOOSE i \in S : \A j \in S : i <= j

\* /CREATE DATABASE(?:\s+IF NOT EXISTS)?\s+`?([^`;\s]+)`?/i: the positions where
\* it matches, and the token its group captures
CreateMatches(dump) ==
  {i \in 1..(Len(dump) - 2) :
     Keyword(dump[i], "CREATE", "create") /\ Keyword(dump[i + 1], "DATABASE", "database")}

CreateCapture(dump, i) ==
  IF /\ i + 5 <= Len(dump)
     /\ Keyword(dump[i + 2], "IF", "if")
     /\ Keyword(dump[i + 3], "NOT", "not")
     /\ Keyword(dump[i + 4], "EXISTS", "exists")
  THEN dump[i + 5].text
  ELSE dump[i + 2].text

\* /USE\s+`?([^`;\s]+)`?/i
UseMatches(dump) ==
  {i \in 1..(Len(dump) - 1) : ~dump[i].quoted /\ dump[i].text \in UseEndings}

\* extractDatabaseName: the first CREATE DATABASE match, else the first USE
\* match, else DATABASE_NAME || MYSQL_DATABASE; "" stands for undefined.
extractDatabaseName(dump) ==
  IF CreateMatches(dump) # {} THEN CreateCapture(dump, Leftmost(CreateMatches(dump)))
  ELSE IF UseMatches(dump) # {} THEN dump[Leftmost(UseMatches(dump)) + 1].text
  ELSE IF world.DATABASE_NAME # "" THEN world.DATABASE_NAME
  ELSE world.MYSQL_DATABASE

\* preValidateSqlDump is called by the handler but the service does not
\* define it; per the specification's stage 1 it resolves the database name
\* from an explicit "create database" or "use database" declaration of the
\* dump, falls back to the configured name, and fails when none is resolved.
DeclaresCreate(dump) ==
  \E i \in 1..(Len(dump) - 2) :
    /\ ~dump[i].quoted /\ dump[i].text \in {"CREATE", "create"}
    /\ ~dump[i + 1].quoted /\ dump[i + 1].text \in {"DATABASE", "database"}

DeclaresUse(dump) ==
  \E i \in 1..(Len(dump) - 1) : ~dump[i].quoted /\ dump[i].text \in {"USE", "use"}

preValidateSqlDump(dump) ==
  IF \/ DeclaresCreate(dump) \/ DeclaresUse(dump)
     \/ world.DATABASE_NAME # "" \/ world.MYSQL_DATABASE # ""
  THEN [ok |-> TRUE, message |-> null]
  ELSE [ok |-> FALSE, message |-> null]

\* a catch block that answers 400 and leaves the session as it was
ValidationFailedIgnored(m, v) == m

\* the catch of the pre-validation: status 'failed', error = err?.message || ...
ValidationFailed(m, v) ==
  [m EXCEPT !.status = "failed", !.error = OrElse(v.message, <<"Invalid SQL dump">>)]

\* The callback passed to startMigration: a status event updates the session.
OnLog(m, e) ==
  IF e.type = "status" /\ "data" \in DOMAIN e
  THEN [m EXCEPT !.progress = IF "progress" \in DOMAIN e.data THEN e.data.progress ELSE @,
                 !.status = IF "status" \in DOMAIN e.data THEN e.data.status ELSE @]
  ELSE m

RECURSIVE OnLogAll(_, _)
OnLogAll(m, evs) ==
  IF evs = <<>> THEN m ELSE OnLogAll(OnLog(m, Head(evs)), Tail(evs))

\* a forEach without the try/catch: the write that throws ends the loop, and
\* the clients after the broken one are not written to
ReceivesUntilThrow(c, id) ==
  /\ conns[c].state = "open"
  /\ \E cl \in migrations[id].clients : cl.res = c
  /\ \A cl \in migrations[id].clients : cl.res < c => conns[cl.res].state = "open"

\* a write to every open response, whatever session it subscribed to
ReceivesAll(c, id) == conns[c].state = "open"

\* client.res.write inside try/catch: a write to a broken response throws or
\* is dropped; either way nothing is delivered and nothing propagates.
Receives(c, id) ==
  /\ conns[c].state = "open"
  /\ \E cl \in migrations[id].clients : cl.res = c

\* ------------------------------------------------------------------- worlds
\* loadUser, loadPassword, loadPgUser, loadPgPassword: the credentials as
\* the two connection URIs of the pgloader config embed them
NoFiles ==
  [dumpDir |-> FALSE, dump |-> FALSE, loadFile |-> FALSE, loadPassword |-> null,
   loadUser |-> null, loadPgUser |-> null, loadPgPassword |-> null,
   output |-> FALSE]

\* "CREATE DATABASE `sales`; USE `sales`; CREATE TABLE `t` ..."
SalesDump ==
  <<Word("CREATE"), Word("DATABASE"), Quoted("sales"),
    Word("USE"), Quoted("sales"), Word("CREATE"), Word("TABLE"), Quoted("t")>>
\* "CREATE TABLE `t` ...": no database is declared
BareDump == <<Word("CREATE"), Word("TABLE"), Quoted("t")>>
\* "USE `shop`; CREATE TABLE `t` ..."
UseDump == <<Word("USE"), Quoted("shop"), Word("CREATE"), Word("TABLE"), Quoted("t")>>
\* "use `shop`; create database if not exists `sales`; ..."
BothDump ==
  <<Word("use"), Quoted("shop"), Word("create"), Word("database"), Word("if"),
    Word("not"), Word("exists"), Quoted("sales")>>
\* what "mysqldump --databases sales" writes:
\* "CREATE DATABASE /*!32312 IF NOT EXISTS*/ `sales` /*!40100 ... */; USE `sales`;"
MysqldumpDump ==
  <<Word("CREATE"), Word("DATABASE"), Word("/*!32312"), Word("IF"), Word("NOT"),
    Word("EXISTS*/"), Quoted("sales"), Word("USE"), Quoted("sales")>>
\* "-- dumped because reasons" then "CREATE TABLE `t` ...": no database is declared
ProseDump ==
  <<Word("--"), Word("dumped"), Word("because"), Word("reasons"),
    Word("CREATE"), Word("TABLE"), Quoted("t")>>

Dumps == {SalesDump, BareDump, UseDump, BothDump, MysqldumpDump, ProseDump}

\* pgloader output as the sequence of the telling lines it contains.
ErrorPhrases ==
  {"ERROR mysql:", "Failed to connect", "MySQL Error [1045]", "FATAL",
   "Unhandled", "signal 11"}

PgloaderOutputs ==
  {<<>>} \cup {<<p>> : p \in ErrorPhrases}
         \cup {<<"fetch meta data 0 0 0">>,
               <<"table name errors rows bytes total time", "fetch meta data 0">>,
               <<"table name errors rows bytes total time">>,
               <<"fetch meta data 0">>}

\* passwords that hold every reserved character, after a prefix
Passwords ==
  {prefix \o ReservedChars :
     prefix \in {<<>>, <<"p">>, <<"%">>, <<"%", "4", "0">>, <<"p", "%", "2", "5">>}}

BaseWorld ==
  [faults |-> {}, ids |-> {"m1"}, targets |-> {"m1"}, watched |-> Sessions,
   polled |-> {},
   requests |-> FaultRequests,
   envMissing |-> {}, MYSQL_ROOT_PASSWORD |-> <<"p", "w">>,
   MYSQL_ROOT |-> <<"r", "o", "o", "t">>, POSTGRES_USER |-> <<"p", "g">>,
   POSTGRES_PASSWORD |-> <<"s", "e", "c">>,
   DATABASE_NAME |-> "", MYSQL_DATABASE |-> "",
   dumps |-> {SalesDump}, pgOutputs |-> {<<>>}]

\* One kind of fault at a time; pre-validation that suspends is explored in
\* the world where the configuration is incomplete, so that the runs it lets
\* overlap are short.
ClientFaults == {"sameInstant", "connBreak", "abort"}

Worlds ==
  {[BaseWorld EXCEPT !.faults = {k}] :
     k \in FaultKinds \ (ClientFaults \cup {"slowValidate", "pgloader", "composeV1"})}
  \cup {[BaseWorld EXCEPT !.faults = {k}, !.requests = MaxRequests] : k \in ClientFaults}
  \cup {[BaseWorld EXCEPT !.requests = MaxRequests],
        [BaseWorld EXCEPT !.requests = 1, !.polled = Sessions],
        [BaseWorld EXCEPT !.requests = MaxRequests + 1, !.watched = {}],
        [BaseWorld EXCEPT !.faults = {"composeV2", "composeV1"}],
        [BaseWorld EXCEPT !.faults = {"pgloader"},
                          !.pgOutputs = {<<>>, <<"Failed to connect">>, <<"fetch meta data 0 0 0">>,
                                          <<"table name errors rows bytes total time",
                                            "fetch meta data 0">>,
                                          <<"fetch meta data 0">>}],
        [BaseWorld EXCEPT !.faults = {"slowValidate"}, !.requests = MaxRequests,
                          !.envMissing = {"MYSQL_ROOT", "POSTGRES_DB"}],
        [BaseWorld EXCEPT !.dumps = {BareDump}]}
  \cup {[BaseWorld EXCEPT !.dumps = Dumps, !.DATABASE_NAME = d, !.MYSQL_DATABASE = m] :
          d \in {"", "fallback"}, m \in {"", "legacy"}}
  \cup {[BaseWorld EXCEPT !.MYSQL_ROOT_PASSWORD = pw] : pw \in Passwords}
  \cup {[BaseWorld EXCEPT !.MYSQL_ROOT = <<"o", "p", "s", "@", "d", "b">>],
        [BaseWorld EXCEPT !.POSTGRES_USER = <<"p", "g", ":", "a", "d", "m">>],
        [BaseWorld EXCEPT !.POSTGRES_PASSWORD = <<"s", "/", "e", "#", "c">>]}
  \cup {
        [BaseWorld EXCEPT !.ids = Sessions, !.targets = Sessions],
        [BaseWorld EXCEPT !.ids = Sessions, !.targets = Sessions, !.faults = {"up"},
                          !.requests = MaxRequests],
        [BaseWorld EXCEPT !.targets = Sessions, !.polled = Sessions]}

NewRun ==
  [pc |-> "start", attempt |-> 0, mysqlHealth |-> "", error |-> null,
   outputFile |-> null, cleanups |-> 0,
   child |-> ChildFacts(<<CloseEvent(0)>>), promise |-> NewPromise]

Init ==
  /\ world \in Worlds
  /\ migrations = <<>>
  /\ validating = [s \in Sessions |-> 0]
  /\ runs = [s \in Sessions |-> <<>>]
  /\ logFile = [s \in Sessions |-> <<>>]
  /\ files = [s \in Sessions |-> NoFiles]
  /\ conns = <<>>
  /\ lastId = 0
  /\ downloads = <<>>
  /\ sent = [s \in Sessions |-> <<>>]
  /\ requests = 0
  /\ lastResp = [op |-> "none", id |-> "", code |-> 0]

\* The awaited pre-validation settles before any other event is handled,
\* unless the world lets it suspend.
Quiet == Fault("slowValidate") \/ \A s \in Sessions : validating[s] = 0

\* a handler that answers 200 whatever it found
RespondAlwaysOk(op, id, code) == lastResp' = [op |-> op, id |-> id, code |-> 200]

\* res.status(code).json(...)
Respond(op, id, code) == lastResp' = [op |-> op, id |-> id, code |-> code]

\* POST /api/upload
Upload(id) ==
  /\ Quiet
  /\ id \in world.ids \ Registered
  /\ \E d \in world.dumps :
       migrations' = [s \in Registered \cup {id} |->
                        IF s = id
                        THEN [status |-> "ready", progress |-> 0, outputFile |-> null,
                              error |-> null, clients |-> {}, uploadedFile |-> d,
                              logPath |-> LogPath(id)]
                        ELSE migrations[s]]
  /\ Respond("upload", id, 200)
  /\ UNCHANGED <<world, validating, runs, logFile, files, conns, lastId,
                 downloads, sent, requests>>

\* -------------------------------------------------- migration.service (part_001)
\* A continuation yields the entries it logged, in order, and the run record
\* it leaves: pc names the child process or timer awaited next.
Step(evs, run) == [evs |-> evs, run |-> run]

\* cleanupDockerProject, up to "await getDockerComposeCommand()"
cleanupDockerProject(r, st, evs) ==
  Step(evs \o <<Info(r, "--- Docker cleanup start ---"),
                Info(r, "Project name"),
                Info(r, "Compose working dir")>>,
       [st EXCEPT !.pc = "composeV2", !.cleanups = @ + 1])

\* a catch block that rethrows without tearing down
AbortWithoutTeardown(r, st, evs, msg) ==
  Step(evs \o <<ErrorWith(r, "Migration failed: ", msg)>>,
       [st EXCEPT !.error = msg, !.pc = "done", !.attempt = 0])

\* a catch block that logs the error and goes on to the export
AbortGoesOn(r, st, evs, msg) ==
  Step(evs \o <<ErrorWith(r, "Migration failed: ", msg)>>,
       [st EXCEPT !.error = msg, !.pc = "pgdump"])

\* startMigration's catch block: log the error, tear down, rethrow later.
Abort(r, st, evs, msg) ==
  cleanupDockerProject(r, [st EXCEPT !.error = msg],
                       evs \o <<ErrorWith(r, "Migration failed: ", msg)>>)

\* a startMigration whose promise is never settled
SettleNever(r, st, evs) == Step(evs, [st EXCEPT !.pc = "pending"])

\* cleanupDockerProject returned: startMigration returns or rethrows.
Settle(r, st, evs) == Step(evs, [st EXCEPT !.pc = "done", !.attempt = 0])

\* the "finally" of cleanupDockerProject
CleanupEnd(r, st, evs) ==
  Settle(r, st, evs \o <<Info(r, "--- Docker cleanup end ---")>>)

\* runPgloaderMigration up to its execProcess
runPgloaderMigration(r, st, evs) ==
  Step(evs \o <<Info(r, "Starting pgloader migration...")>>, [st EXCEPT !.pc = "pgloader"])

\* "attempt <= 3 || attempt % 10 === 0"
Sparse(attempt) == attempt <= FirstFew \/ attempt % SparseEvery = 0

\* one round of the readiness loop starts: inspect the MySQL container
PollRound(r, st, evs, attempt) ==
  Step(evs, [st EXCEPT !.pc = "inspectMysql", !.attempt = attempt, !.mysqlHealth = ""])

\* a readiness loop that fails the run when the attempts are used up
PollNextFails(r, st, evs, maxAttempts) ==
  IF st.attempt + 1 <= maxAttempts
  THEN PollRound(r, st, evs, st.attempt + 1)
  ELSE Abort(r, st, evs, <<"Database readiness timeout">>)

\* the loop condition "attempt <= maxAttempts" and what follows the loop
PollNext(r, st, evs, maxAttempts) ==
  IF st.attempt + 1 <= maxAttempts
  THEN PollRound(r, st, evs, st.attempt + 1)
  ELSE runPgloaderMigration(r, st,
         evs \o <<Warn(r, "Database readiness timeout - proceeding anyway")>>)

\* a readiness loop that lets a rejected or unhealthy inspect end the run
PollWaitThrows(r, st, evs, detail) ==
  Abort(r, st, evs, <<"Database not ready">> \o detail)

\* not both healthy, or an inspect was rejected: log sparsely, sleep 2 s
PollWait(r, st, evs, detail) ==
  Step(evs \o (IF Sparse(st.attempt)
               THEN <<InfoWith(r, "Waiting...", <<ToString(st.attempt)>> \o detail)>> ELSE <<>>),
       [st EXCEPT !.pc = "pollSleep", !.mysqlHealth = ""])

\* waitForDatabases up to the first inspect; extractDatabaseName reads the
\* prepared dump and throws when it is gone.
waitForDatabases(r, st, evs, f) ==
  IF f.dump
  THEN PollRound(r, st, evs \o <<Info(r, "Waiting for databases to be ready...")>>, 1)
  ELSE Abort(r, st, evs \o <<Info(r, "Waiting for databases to be ready...")>>,
             <<"ENOENT: dump.sql">>)

\* createPgloaderConfig then startDockerContainers, up to "docker-compose up"
\* a check that reports the first missing variable only
missingVarsFirst ==
  LET all == SelectSeq(RequiredEnvVars, LAMBDA v : v \in world.envMissing)
  IN IF all = <<>> THEN <<>> ELSE <<Head(all)>>

\* requiredEnvVars.filter(v => !process.env[v])
missingVars == SelectSeq(RequiredEnvVars, LAMBDA v : v \in world.envMissing)

createPgloaderConfig(r, st, evs, dump) ==
  LET e1 == evs \o <<Info(r, "Creating pgloader configuration...")>>
      db == extractDatabaseName(dump)
  IN IF missingVars # <<>>
     THEN [ok |-> FALSE,
           step |-> Abort(r, st, e1, <<"Missing required environment variables: ">> \o missingVars)]
     ELSE IF db = ""
     THEN [ok |-> FALSE,
           step |-> Abort(r, st, e1, <<"Unable to determine MySQL database name from dump or environment variables">>)]
     ELSE [ok |-> TRUE,
           step |-> Step(e1 \o <<InfoWith(r, "Detected MySQL database name: ", <<db>>),
                                  Info(r, "Pgloader config created")>>, st)]

startDockerContainers(r, st, evs) ==
  Step(evs \o <<Info(r, "Starting Docker containers..."),
                Info(r, "Using Docker Compose project")>>,
       [st EXCEPT !.pc = "up"])

\* outcomes of loadContainerEnv: the .env file is loaded, absent, or dotenv fails
EnvFileStates == IF Fault("envFile") THEN {"loaded", "absent", "error"} ELSE {"loaded"}
CopyOutcomes == IF Fault("copy") THEN {"ok", "throws"} ELSE {"ok"}

\* startMigration from its first line to its first pending await.
\* Yields the step and the files written.
startMigration(r, dump, f, envFile, copy) ==
  LET st == NewRun
      e0 == <<Info(r, "Starting migration"), Info(r, "File")>>
      e1 == e0 \o (IF envFile = "absent" THEN <<Warn(r, "No .env found")>>
                   ELSE IF envFile = "loaded" THEN <<Info(r, "Loaded environment variables")>>
                   ELSE <<>>)
      e2 == e1 \o <<Info(r, "Preparing MySQL dump file...")>>
      f2 == [f EXCEPT !.dumpDir = TRUE, !.dump = (copy = "ok") \/ @]
      e3 == e2 \o <<Info(r, "Dump file prepared")>>
      cfg == createPgloaderConfig(r, st, e3, dump)
      f3 == [f2 EXCEPT !.loadFile = TRUE,
                       !.loadUser = world.MYSQL_ROOT,
                       !.loadPassword = encodeCredentials(world.MYSQL_ROOT_PASSWORD),
                       !.loadPgUser = world.POSTGRES_USER,
                       !.loadPgPassword = encodeCredentials(world.POSTGRES_PASSWORD)]
  IN IF envFile = "error" THEN [step |-> Abort(r, st, e0, <<"dotenv error">>), files |-> f]
     ELSE IF copy = "throws" THEN [step |-> Abort(r, st, e2, <<"ENOENT: copyfile">>), files |-> f2]
     ELSE IF ~cfg.ok THEN [step |-> cfg.step, files |-> f2]
     ELSE [step |-> startDockerContainers(r, cfg.step.run, cfg.step.evs), files |-> f3]

\* "docker-compose up" exited
UpExited(r, st, out, f) ==
  IF out = "ok"
  THEN waitForDatabases(r, st, <<Info(r, "Docker: <line>"),
                                  Info(r, "Docker containers started successfully")>>, f)
  ELSE Abort(r, st, <<Error(r, "Docker startup failed (details below)"),
                      Error(r, "docker compose stdout"),
                      Error(r, "docker compose stderr"),
                      ErrorWith(r, "docker compose message: ", OrElse(ErrMessage(out), <<"(no message)">>))>>,
             <<"Docker Compose failed to start">>)

HealthValues == IF Fault("health") THEN {"healthy", "starting"} ELSE {"healthy"}

\* inspect of the MySQL container exited
InspectMysqlExited(r, st, out, health) ==
  IF out = "ok"
  THEN Step(<<>>, [st EXCEPT !.pc = "inspectPg", !.mysqlHealth = health])
  ELSE PollWait(r, st, <<>>, <<>>)

\* inspect of the PostgreSQL container exited
InspectPgExited(r, st, out, health) ==
  IF out # "ok" THEN PollWait(r, st, <<>>, <<>>)
  ELSE IF st.mysqlHealth = "healthy" /\ health = "healthy"
  THEN Step(<<InfoWith(r, "MySQL/PostgreSQL healthy after", <<ToString(st.attempt)>>)>>,
            [st EXCEPT !.pc = "mountCheck", !.mysqlHealth = ""])
  ELSE PollWait(r, st, <<>>, <<st.mysqlHealth, health>>)

\* verifyDumpMounted's "docker exec ls" exited; then the 10 s grace sleep
MountCheckExited(r, st, out, visible) ==
  Step((IF out = "ok"
        THEN <<Info(r, "MySQL initdb.d content:")>>
             \o (IF visible THEN <<>> ELSE <<Warn(r, "dump.sql not visible inside /docker-entrypoint-initdb.d")>>)
        ELSE <<WarnWith(r, "Unable to verify initdb.d mount: ", ErrMessage(out))>>)
       \o <<Info(r, "Waiting 10 seconds for MySQL init scripts to complete...")>>,
       [st EXCEPT !.pc = "grace"])

\* the grace sleep elapsed: run the content check
GraceElapsed(r, st) == Step(<<>>, [st EXCEPT !.pc = "mysqlCheck"])

\* the "SHOW TABLES" check exited; waitForDatabases returns
MysqlCheckExited(r, st, out, hasTables) ==
  runPgloaderMigration(r, st,
    IF out = "ok"
    THEN <<Info(r, "MySQL verification for DB")>>
         \o (IF hasTables THEN <<>> ELSE <<Warn(r, "Database is present but has no tables")>>)
    ELSE <<WarnWith(r, "Could not verify MySQL DB/tables: ",
                    IF out = "nonzero" THEN <<"stderr">> ELSE ErrMessage(out))>>)

\* a transfer step that knows no error pattern
hasErrorNever(output) == FALSE

\* errorPatterns.some(re => re.test(combined))
hasError(output) == \E i \in DOMAIN output : output[i] \in ErrorPhrases

\* a || b && c  parses as  a || (b && c)
looksLikeNoWork(output) ==
  \/ "fetch meta data 0 0 0" \in Range(output)
  \/ /\ "table name errors rows bytes total time" \in Range(output)
     /\ "fetch meta data 0" \in Range(output)

\* verifyPostgresHasTables up to its execProcess
verifyPostgresHasTables(r, st, evs) == Step(evs, [st EXCEPT !.pc = "verifyPg"])

\* pgloader exited
PgloaderExited(r, st, out, output) ==
  LET lines == [i \in DOMAIN output |-> InfoWith(r, "pgloader: ", <<output[i]>>)]
      thrown == IF out # "ok" THEN ErrMessage(out)
                ELSE IF hasError(output) THEN <<"pgloader reported an error (see logs above).">>
                ELSE IF looksLikeNoWork(output)
                THEN <<"pgloader finished but migrated 0 tables/rows (source DB empty or access denied).">>
                ELSE null
  IN IF out = "ok" /\ thrown = null
     THEN verifyPostgresHasTables(r, st,
            lines \o <<Info(r, "pgloader migration completed successfully")>>)
     ELSE Abort(r, st,
                (IF out = "ok" THEN lines ELSE <<>>) \o <<Error(r, "pgloader failed")>>,
                <<"pgloader migration failed: ">> \o OrElse(thrown, <<"unknown error">>))

\* exportPostgresDump up to its execProcess
exportPostgresDump(r, st, evs) ==
  Step(evs \o <<Info(r, "Exporting PostgreSQL dump..."), Info(r, "pg_dump will use")>>,
       [st EXCEPT !.pc = "pgdump"])

\* a verification that ends the run when the target holds no relation or
\* the query could not be run
VerifyPgExitedStrict(r, st, out, hasRelations) ==
  IF out = "ok" /\ hasRelations
  THEN exportPostgresDump(r, st, <<Info(r, "Postgres \\dt output:")>>)
  ELSE Abort(r, st, <<>>, <<"Postgres has no tables.">>)

\* "psql \dt" exited: warn at most, then export
VerifyPgExited(r, st, out, hasRelations) ==
  exportPostgresDump(r, st,
    IF out = "ok"
    THEN <<Info(r, "Postgres \\dt output:")>>
         \o (IF hasRelations THEN <<>> ELSE <<Warn(r, "Postgres has no tables.")>>)
    ELSE <<WarnWith(r, "Could not verify Postgres tables: ",
                    IF out = "nonzero" THEN <<"stderr">> ELSE ErrMessage(out))>>)

\* pg_dump exited
PgDumpExited(id, r, st, out) ==
  IF out = "ok"
  THEN cleanupDockerProject(r, [st EXCEPT !.outputFile = OutputPath(id)],
         <<Info(r, "PostgreSQL dump exported"),
           Info(r, "Migration completed successfully")>>)
  ELSE Abort(r, st, <<Error(r, "pg_dump failed")>>, <<"PostgreSQL dump export failed">>)

\* the compose command was found: run "down -v"
ComposeDown(r, st, cmd) ==
  Step(<<InfoWith(r, "Using compose command: ", <<cmd>>), Info(r, "Running: down -v")>>,
       [st EXCEPT !.pc = "down"])

\* a catch block that rethrows what the teardown met
CleanupFailedThrows(r, st, reason, streams) ==
  CleanupEnd(r, [st EXCEPT !.error = reason, !.outputFile = null],
             <<Error(r, "Docker cleanup failed")>>)

\* the catch block of cleanupDockerProject
CleanupFailed(r, st, reason, streams) ==
  CleanupEnd(r, st,
    <<Warn(r, "Docker cleanup failed or skipped"), WarnWith(r, "Reason: ", reason)>>
    \o streams
    \o <<Warn(r, "Proceeding without cleanup (this is usually OK for first run)")>>)

\* "docker compose version" exited
ComposeV2Exited(r, st, out) ==
  IF out = "ok" THEN ComposeDown(r, st, "docker compose")
  ELSE Step(<<>>, [st EXCEPT !.pc = "composeV1"])

\* "docker-compose version" exited
ComposeV1Exited(r, st, out) ==
  IF out = "ok" THEN ComposeDown(r, st, "docker-compose")
  ELSE CleanupFailed(r, st,
         <<"Neither \"docker compose\" nor \"docker-compose\" is available.">>, <<>>)

\* "compose down -v" exited
DownExited(r, st, out) ==
  IF out = "ok"
  THEN CleanupEnd(r, st, <<Info(r, "docker compose down exit code: 0"),
                           Info(r, "docker compose down stdout"),
                           Info(r, "Docker cleanup completed successfully")>>)
  ELSE CleanupFailed(r, st, OrElse(ErrMessage(out), <<"(no message)">>),
                     IF out = "nonzero" THEN <<Warn(r, "stderr")>> ELSE <<>>)

\* ----------------------------------------------------------- server (part_000)
\* new Logger(logPath, onLog): fs.writeFileSync(logPath, '')
LoggerCreate(log) == <<>>

\* a Logger.log that hands the entry to onLog without writing it
LoggerAppendNothing(log, evs) == log

\* Logger.log: fs.appendFileSync(this.logPath, logLine)
LoggerAppend(log, evs) == log \o evs

\* a .then handler that adds the final 100 to the progress it finds
ThenHandlerAdds(m, result) ==
  LET m1 == [m EXCEPT !.status = "completed", !.progress = @ + 101,
                      !.outputFile = result.outputFile]
  IN [m |-> m1,
      event |-> StatusEvent([status |-> m1.status, progress |-> m1.progress,
                             outputFile |-> Basename(m1.outputFile)])]

\* the .then handler of startMigration's promise
ThenHandler(m, result) ==
  LET m1 == [m EXCEPT !.status = "completed", !.progress = 100,
                      !.outputFile = result.outputFile]
  IN [m |-> m1,
      event |-> StatusEvent([status |-> m1.status, progress |-> m1.progress,
                             outputFile |-> Basename(m1.outputFile)])]

\* the .catch handler of startMigration's promise
CatchHandler(m, result) ==
  LET m1 == [m EXCEPT !.status = "failed", !.error = result.error]
  IN [m |-> m1,
      event |-> StatusEvent([status |-> m1.status, progress |-> m1.progress,
                             error |-> m1.error])]

\* What one continuation of run r of session id does to the state: every
\* entry is appended to the log file and handed to the onLog callback, which
\* writes it to every client; when startMigration settles, the .then or the
\* .catch handler runs and broadcastStatus writes the final status event.
Apply(id, r, m, fresh, step, f) ==
  LET st == step.run
      m0 == OnLogAll(m, step.evs)
      end == IF st.pc # "done" THEN [m |-> m0, events |-> <<>>]
             ELSE LET h == IF st.error = null THEN ThenHandler(m0, st)
                           ELSE CatchHandler(m0, st)
                  IN [m |-> h.m, events |-> <<h.event>>]
      out == step.evs \o end.events
  IN /\ migrations' = [migrations EXCEPT ![id] = end.m]
     /\ runs' = [runs EXCEPT ![id] = IF r > Len(@) THEN Append(@, st)
                                      ELSE [@ EXCEPT ![r] = st]]
     /\ logFile' = [logFile EXCEPT ![id] =
                      LoggerAppend(IF fresh THEN LoggerCreate(@) ELSE @, step.evs)]
     /\ files' = [files EXCEPT ![id] = f]
     /\ conns' = [c \in DOMAIN conns |->
                    IF Receives(c, id) THEN [conns[c] EXCEPT !.recv = @ \o out]
                    ELSE conns[c]]
     /\ sent' = [sent EXCEPT ![id] = out]

\* "if (migration.status === 'running') return res.status(409)"
AlreadyRunningNever(m) == FALSE

AlreadyRunning(m) == m.status = "running"

\* POST /api/migrate/:migrationId, up to "await preValidateSqlDump(...)"
StartRequest(id) ==
  /\ Quiet
  /\ requests < world.requests
  /\ requests' = requests + 1
  /\ IF id \notin Registered
     THEN Respond("start", id, 404) /\ UNCHANGED validating
     ELSE IF AlreadyRunning(migrations[id])
     THEN Respond("start", id, 409) /\ UNCHANGED validating
     ELSE /\ validating[id] < MaxPending
          /\ validating' = [validating EXCEPT ![id] = @ + 1]
          /\ UNCHANGED lastResp
  /\ UNCHANGED <<world, migrations, runs, logFile, files, conns, lastId, downloads, sent>>

\* the handler resumes after the pre-validation: 400 on failure, else the
\* session is set running and startMigration is called
PreValidateDone(id) ==
  /\ id \in Registered
  /\ validating[id] > 0
  /\ validating' = [validating EXCEPT ![id] = @ - 1]
  /\ LET m == migrations[id]
         v == preValidateSqlDump(m.uploadedFile)
         r == Len(runs[id]) + 1
     IN IF ~v.ok
        THEN /\ migrations' = [migrations EXCEPT ![id] = ValidationFailed(m, v)]
             /\ Respond("start", id, 400)
             /\ UNCHANGED <<runs, logFile, files, conns, sent>>
        ELSE /\ \E envFile \in EnvFileStates, copy \in CopyOutcomes :
                  LET sm == startMigration(r, m.uploadedFile, files[id], envFile, copy)
                  IN Apply(id, r, [m EXCEPT !.status = "running", !.progress = 0],
                           TRUE, sm.step, sm.files)
             /\ Respond("start", id, 200)
  /\ UNCHANGED <<world, lastId, downloads, requests>>

\* the run resumes with the promise of the child it awaited
Ran(st, events) ==
  LET e == Executions[events]
  IN [st EXCEPT !.child = e.child, !.promise = e.promise]

\* a continuation of run r of session id, awaiting at pc
Awaiting(id, r, pc) ==
  /\ Quiet
  /\ id \in Registered
  /\ r \in DOMAIN runs[id]
  /\ runs[id][r].pc = pc

Continue(id, r, step, f) ==
  /\ Apply(id, r, migrations[id], FALSE, step, f)
  /\ UNCHANGED <<world, validating, lastId, downloads, requests, lastResp>>

UpExit(id, r) ==
  /\ Awaiting(id, r, "up")
  /\ \E ev \in ChildEvents("up") :
       Continue(id, r, UpExited(r, Ran(runs[id][r], ev), Outcome(ev), files[id]), files[id])

InspectMysqlExit(id, r) ==
  /\ Awaiting(id, r, "inspectMysql")
  /\ \E ev \in ChildEvents("health"), h \in HealthValues :
       Continue(id, r, InspectMysqlExited(r, Ran(runs[id][r], ev), Outcome(ev), h), files[id])

InspectPgExit(id, r) ==
  /\ Awaiting(id, r, "inspectPg")
  /\ \E ev \in ChildEvents("health"), h \in HealthValues :
       Continue(id, r, InspectPgExited(r, Ran(runs[id][r], ev), Outcome(ev), h), files[id])

PollSleepDone(id, r) ==
  /\ Awaiting(id, r, "pollSleep")
  /\ Continue(id, r, PollNext(r, runs[id][r], <<>>, MaxAttempts), files[id])

MountCheckExit(id, r) ==
  /\ Awaiting(id, r, "mountCheck")
  /\ \E ev \in ChildEvents("mount"), visible \in {TRUE, ~Fault("mount")} :
       Continue(id, r, MountCheckExited(r, Ran(runs[id][r], ev), Outcome(ev), visible), files[id])

GraceDone(id, r) ==
  /\ Awaiting(id, r, "grace")
  /\ Continue(id, r, GraceElapsed(r, runs[id][r]), files[id])

MysqlCheckExit(id, r) ==
  /\ Awaiting(id, r, "mysqlCheck")
  /\ \E ev \in ChildEvents("mysqlCheck"), hasTables \in {TRUE, ~Fault("mysqlCheck")} :
       Continue(id, r, MysqlCheckExited(r, Ran(runs[id][r], ev), Outcome(ev), hasTables), files[id])

PgloaderExit(id, r) ==
  /\ Awaiting(id, r, "pgloader")
  /\ \E ev \in ChildEvents("pgloader"), output \in world.pgOutputs :
       Continue(id, r, PgloaderExited(r, Ran(runs[id][r], ev), Outcome(ev), output), files[id])

VerifyPgExit(id, r) ==
  /\ Awaiting(id, r, "verifyPg")
  /\ \E ev \in ChildEvents("verifyPg"), hasRelations \in {TRUE, ~Fault("verifyPg")} :
       Continue(id, r, VerifyPgExited(r, Ran(runs[id][r], ev), Outcome(ev), hasRelations), files[id])

PgDumpExit(id, r) ==
  /\ Awaiting(id, r, "pgdump")
  /\ \E ev \in ChildEvents("pgdump") :
       Continue(id, r, PgDumpExited(id, r, Ran(runs[id][r], ev), Outcome(ev)),
                [files[id] EXCEPT !.output = (Outcome(ev) = "ok") \/ @])

ComposeV2Exit(id, r) ==
  /\ Awaiting(id, r, "composeV2")
  /\ \E ev \in ChildEvents("composeV2") :
       Continue(id, r, ComposeV2Exited(r, Ran(runs[id][r], ev), Outcome(ev)), files[id])

ComposeV1Exit(id, r) ==
  /\ Awaiting(id, r, "composeV1")
  /\ \E ev \in ChildEvents("composeV1") :
       Continue(id, r, ComposeV1Exited(r, Ran(runs[id][r], ev), Outcome(ev)), files[id])

DownExit(id, r) ==
  /\ Awaiting(id, r, "down")
  /\ \E ev \in ChildEvents("down") :
       Continue(id, r, DownExited(r, Ran(runs[id][r], ev), Outcome(ev)), files[id])

\* the status snapshot a subscriber is sent first
Snapshot(m) == StatusEvent([status |-> m.status, progress |-> m.progress])

\* a subscription that replays nothing
ReplayNothing(log) == <<>>

\* the lines of the log file, each parsed and written again
Replay(log) == log

\* Date.now() does not go back; two calls in one millisecond return the same value
ClockValues == {lastId + 1} \cup (IF Fault("sameInstant") /\ lastId > 0 THEN {lastId} ELSE {})

\* GET /api/migrate/:migrationId/logs
Subscribe(id) ==
  /\ Quiet
  /\ requests < world.requests
  /\ requests' = requests + 1
  /\ IF id \notin Registered
     THEN Respond("logs", id, 404) /\ UNCHANGED <<migrations, conns, lastId>>
     ELSE \E now \in ClockValues :
            LET c == Len(conns) + 1
                m == migrations[id]
            IN /\ migrations' = [migrations EXCEPT ![id].clients =
                                   @ \cup {[res |-> c, id |-> now]}]
               /\ conns' = Append(conns, [sid |-> id, id |-> now, state |-> "open",
                                          recv |-> <<Snapshot(m)>> \o Replay(logFile[id])])
               /\ lastId' = now
               /\ Respond("logs", id, 200)
  /\ UNCHANGED <<world, validating, runs, logFile, files, downloads, sent>>

\* GET /api/migrate/:migrationId/status: 404, or the session's id, status,
\* progress, error and output file name as JSON
Status(id) ==
  /\ Quiet
  /\ requests < world.requests
  /\ requests' = requests + 1
  /\ IF id \notin Registered
     THEN Respond("status", id, 404)
     ELSE Respond("status", id, 200)
  /\ UNCHANGED <<world, migrations, validating, runs, logFile, files, conns, lastId,
                 downloads, sent>>

\* migration.clients.filter(c => c.id !== client.id)
WithoutClient(clients, cid) == {cl \in clients : cl.id # cid}

\* req.on('close'): the client went away
Disconnect(c) ==
  /\ Quiet
  /\ c \in DOMAIN conns
  /\ conns[c].state \in {"open", "broken"}
  /\ migrations' = [migrations EXCEPT ![conns[c].sid].clients = WithoutClient(@, conns[c].id)]
  /\ conns' = [conns EXCEPT ![c].state = "closed"]
  /\ UNCHANGED <<world, validating, runs, logFile, files, lastId, downloads, sent,
                 requests, lastResp>>

\* the connection broke and its 'close' event has not been handled yet
ConnBreak(c) ==
  /\ Quiet
  /\ Fault("connBreak")
  /\ c \in DOMAIN conns
  /\ conns[c].state = "open"
  /\ conns' = [conns EXCEPT ![c].state = "broken"]
  /\ UNCHANGED <<world, migrations, validating, runs, logFile, files, lastId, downloads,
                 sent, requests, lastResp>>

\* "!migration.outputFile || !fs.existsSync(migration.outputFile)"
NoArtifact(m, f) == m.outputFile = null \/ ~f.output

\* GET /api/download/:migrationId, up to res.download(...)
Download(id) ==
  /\ Quiet
  /\ requests < world.requests
  /\ requests' = requests + 1
  /\ IF id \notin Registered \/ NoArtifact(migrations[id], files[id])
     THEN Respond("download", id, 404) /\ UNCHANGED downloads
     ELSE /\ downloads' = Append(downloads, [sid |-> id, state |-> "sending", cleaned |-> FALSE])
          /\ Respond("download", id, 200)
  /\ UNCHANGED <<world, migrations, validating, runs, logFile, files, conns, lastId, sent>>

\* cleanupArtifacts: safeRemove of the dump directory, the pgloader config
\* and migration.outputFile; then migration.outputFile = null
cleanupArtifacts(d) ==
  LET id == downloads[d].sid
  IN IF downloads[d].cleaned
     THEN UNCHANGED <<migrations, files>>
     ELSE /\ files' = [files EXCEPT ![id] =
                         [dumpDir |-> FALSE, dump |-> FALSE, loadFile |-> FALSE,
                          loadPassword |-> null, loadUser |-> null,
                          loadPgUser |-> null, loadPgPassword |-> null,
                          output |-> IF migrations[id].outputFile = null THEN @.output ELSE FALSE]]
          /\ migrations' = [migrations EXCEPT ![id].outputFile = null]

\* res 'finish': the response was fully written (writableEnded)
DownloadFinish(d) ==
  /\ Quiet
  /\ d \in DOMAIN downloads
  /\ downloads[d].state = "sending"
  /\ cleanupArtifacts(d)
  /\ downloads' = [downloads EXCEPT ![d].state = "finished", ![d].cleaned = TRUE]
  /\ UNCHANGED <<world, validating, runs, logFile, conns, lastId, sent, requests, lastResp>>

\* res 'close': after 'finish', or instead of it when the client aborted
DownloadClose(d) ==
  /\ Quiet
  /\ d \in DOMAIN downloads
  /\ \/ /\ downloads[d].state = "finished"
        /\ cleanupArtifacts(d)
     \/ /\ downloads[d].state = "sending"
        /\ Fault("abort")
        /\ UNCHANGED <<migrations, files>>
  /\ downloads' = [downloads EXCEPT ![d].state = "closed"]
  /\ UNCHANGED <<world, validating, runs, logFile, conns, lastId, sent, requests, lastResp>>

Runs == 1..(MaxRequests + 1)

Next ==
  \/ \E id \in Sessions : Upload(id)
  \/ \E id \in world.targets : StartRequest(id)
  \/ \E id \in Sessions : PreValidateDone(id)
  \/ \E id \in world.targets \cap world.watched : Subscribe(id)
  \/ \E id \in world.targets \cap world.polled : Status(id)
  \/ \E id \in world.targets : Download(id)
  \/ \E c \in DOMAIN conns : Disconnect(c)
  \/ \E c \in DOMAIN conns : ConnBreak(c)
  \/ \E d \in DOMAIN downloads : DownloadFinish(d)
  \/ \E d \in DOMAIN downloads : DownloadClose(d)
  \/ \E id \in Sessions, r \in Runs : UpExit(id, r)
  \/ \E id \in Sessions, r \in Runs : InspectMysqlExit(id, r)
  \/ \E id \in Sessions, r \in Runs : InspectPgExit(id, r)
  \/ \E id \in Sessions, r \in Runs : PollSleepDone(id, r)
  \/ \E id \in Sessions, r \in Runs : MountCheckExit(id, r)
  \/ \E id \in Sessions, r \in Runs : GraceDone(id, r)
  \/ \E id \in Sessions, r \in Runs : MysqlCheckExit(id, r)
  \/ \E id \in Sessions, r \in Runs : PgloaderExit(id, r)
  \/ \E id \in Sessions, r \in Runs : VerifyPgExit(id, r)
  \/ \E id \in Sessions, r \in Runs : PgDumpExit(id, r)
  \/ \E id \in Sessions, r \in Runs : ComposeV2Exit(id, r)
  \/ \E id \in Sessions, r \in Runs : ComposeV1Exit(id, r)
  \/ \E id \in Sessions, r \in Runs : DownExit(id, r)

Spec == Init /\ [][Next]_vars

\* the continuation of run r of session id that the exit of the awaited
\* child process, or the awaited timer, resumes
PipelineStep(id, r) ==
  \/ UpExit(id, r) \/ InspectMysqlExit(id, r) \/ InspectPgExit(id, r)
  \/ PollSleepDone(id, r) \/ MountCheckExit(id, r) \/ GraceDone(id, r)
  \/ MysqlCheckExit(id, r) \/ PgloaderExit(id, r) \/ VerifyPgExit(id, r)
  \/ PgDumpExit(id, r) \/ ComposeV2Exit(id, r) \/ ComposeV1Exit(id, r)
  \/ DownExit(id, r)

\* Every spawned command exits and every timer fires, and the event loop
\* then runs the continuation; the awaited pre-validation settles.
LiveWorlds ==
  {w \in Worlds : w.ids = {"m1"} /\ w.targets = {"m1"} /\ w.dumps = {SalesDump}
                    /\ w.requests <= MaxRequests
                    /\ w.MYSQL_ROOT_PASSWORD = BaseWorld.MYSQL_ROOT_PASSWORD
                    /\ w.MYSQL_ROOT = BaseWorld.MYSQL_ROOT
                    /\ w.POSTGRES_USER = BaseWorld.POSTGRES_USER
                    /\ w.POSTGRES_PASSWORD = BaseWorld.POSTGRES_PASSWORD}

LiveInit == Init /\ world \in LiveWorlds

LiveSpec ==
  /\ LiveInit /\ [][Next]_vars
  /\ \A id \in Sessions : WF_vars(PreValidateDone(id))
  /\ \A id \in Sessions : \A r \in Runs : WF_vars(PipelineStep(id, r))

\* The escaping of a credential, on its own: the environment holds any
\* password of up to MaxPasswordLen characters of CredAlphabet, and one
\* session is uploaded and started, which writes the loader configuration.
CredAlphabet == {":", "@", "%", "4", "0"}

CredPasswords == UNION {[1..n -> CredAlphabet] : n \in 1..MaxPasswordLen}

CredWorlds ==
  {[BaseWorld EXCEPT !.requests = 1, !.MYSQL_ROOT_PASSWORD = pw, !.POSTGRES_PASSWORD = pw] :
     pw \in CredPasswords}

CredInit ==
  /\ world \in CredWorlds
  /\ migrations = <<>>
  /\ validating = [s \in Sessions |-> 0]
  /\ runs = [s \in Sessions |-> <<>>]
  /\ logFile = [s \in Sessions |-> <<>>]
  /\ files = [s \in Sessions |-> NoFiles]
  /\ conns = <<>>
  /\ lastId = 0
  /\ downloads = <<>>
  /\ sent = [s \in Sessions |-> <<>>]
  /\ requests = 0
  /\ lastResp = [op |-> "none", id |-> "", code |-> 0]

CredNext ==
  \/ \E id \in Sessions : Upload(id)
  \/ \E id \in world.targets : StartRequest(id)
  \/ \E id \in Sessions : PreValidateDone(id)

CredSpec == CredInit /\ [][CredNext]_vars

\* ===================================================================== claims
IsPrefix(a, b) == Len(a) <= Len(b) /\ SubSeq(b, 1, Len(a)) = a
IsSuffix(a, b) == Len(a) <= Len(b) /\ SubSeq(b, Len(b) - Len(a) + 1, Len(b)) = a
LogEvents(evs) == SelectSeq(evs, LAMBDA e : e.type = "log")
StatusEvents(evs) == SelectSeq(evs, LAMBDA e : e.type = "status")
Last(s) == s[Len(s)]
Active(id) == {r \in DOMAIN runs[id] : runs[id][r].pc # "done"}

\* an observer of session id: an entry of migration.clients whose response is open
Observers(id) == {c \in DOMAIN conns : conns[c].sid = id /\ Receives(c, id)}

\* C1: the status of a session changes only from ready to running and from
\* running to completed or failed; once completed or failed it never changes
\* again, and ready never goes directly to failed.
StatusTransitions ==
  {<<"ready", "running">>, <<"running", "completed">>, <<"running", "failed">>}
C1_StatusTransitions ==
  [][\A id \in Registered :
       \/ migrations'[id].status = migrations[id].status
       \/ <<migrations[id].status, migrations'[id].status>> \in StatusTransitions]_vars

\* C2: at most one startMigration call that has not settled exists for a
\* session id at any time.
C2_SinglePipeline == \A id \in Sessions : Cardinality(Active(id)) <= 1

\* C3: a start request on a running session is answered 409 and changes
\* neither the session record (status, progress, outputFile, error, clients)
\* nor the log, and starts no pipeline and suspends no handler.
C3_StartWhileRunningRejected ==
  [][\A id \in Registered :
       (migrations[id].status = "running" /\ StartRequest(id))
         => /\ lastResp' = [op |-> "start", id |-> id, code |-> 409]
            /\ UNCHANGED <<migrations, logFile, runs, validating, conns, files, sent>>]_vars

C3_Witness ==
  \E id \in Registered :
    /\ migrations[id].status = "running"
    /\ lastResp = [op |-> "start", id |-> id, code |-> 409]
    /\ Active(id) # {}

\* C4: the log entries delivered to an observer (replayed, then live) are
\* exactly the durable log, in append order, whenever the observer subscribed.
C4_DeliveredEqualsLog ==
  \A id \in Registered : \A c \in Observers(id) :
    LogEvents(conns[c].recv) = logFile[id]

\* C5 (as claimed): every attempted run ends with exactly one teardown, a
\* start that fails the pre-validation included.
TeardownCount(id) == Cardinality({r \in DOMAIN runs[id] : runs[id][r].cleanups > 0})
Settled(id) == DOMAIN runs[id] \ Active(id)
InTeardown == {"composeV2", "composeV1", "down", "done"}
C6_OutputIffCompleted ==
  \A id \in Registered :
    migrations[id].outputFile # null <=> migrations[id].status = "completed"

\* C7: error is non-null if and only if status is failed.
C7_ErrorIffFailed ==
  \A id \in Registered :
    migrations[id].error # null <=> migrations[id].status = "failed"

\* C8: the durable log only grows: every step leaves the entries already
\* appended in place.
C8_LogAppendOnly ==
  [][\A id \in Sessions : IsPrefix(logFile[id], logFile'[id])]_vars

Connected(id) == {c \in DOMAIN conns : conns[c].sid = id /\ conns[c].state = "open"}

\* C10: when a run ends the session is in the matching terminal state and
\* the final status event is the last thing every connected observer
\* received: on success completed, 100 and the exported artifact; on failure
\* failed and the message of the stage that failed first, which teardown
\* never replaces.
FatalMessages(pc) ==
  IF pc = "start"
  THEN {<<"dotenv error">>, <<"ENOENT: copyfile">>,
        <<"Missing required environment variables: ">> \o missingVars,
        <<"Unable to determine MySQL database name from dump or environment variables">>}
  ELSE IF pc = "up" THEN {<<"Docker Compose failed to start">>, <<"ENOENT: dump.sql">>}
  ELSE IF pc = "pgloader"
  THEN {<<"pgloader migration failed: ", x>> :
          x \in {"unknown error", "spawn ENOENT",
                 "pgloader reported an error (see logs above).",
                 "pgloader finished but migrated 0 tables/rows (source DB empty or access denied)."}}
  ELSE IF pc = "pgdump" THEN {<<"PostgreSQL dump export failed">>}
  ELSE {}

FinalEvent(id, st, progress) ==
  IF st.error = null
  THEN StatusEvent([status |-> "completed", progress |-> 100,
                    outputFile |-> <<OutputPath(id)[2]>>])
  ELSE StatusEvent([status |-> "failed", progress |-> progress, error |-> st.error])

C10_RunEnd ==
  [][\A id \in Registered : \A r \in DOMAIN runs'[id] :
       LET old == IF r \in DOMAIN runs[id] THEN runs[id][r] ELSE NewRun
           new == runs'[id][r]
           m == migrations'[id]
       IN /\ (old.error = null /\ new.error # null) => new.error \in FatalMessages(old.pc)
          /\ old.error # null => new.error = old.error
          /\ (old.pc # "done" /\ new.pc = "done") =>
               /\ IF new.error = null
                  THEN m.status = "completed" /\ m.progress = 100
                       /\ m.outputFile = OutputPath(id) /\ new.outputFile = OutputPath(id)
                  ELSE m.status = "failed" /\ m.error = new.error
               /\ Last(sent'[id]) = FinalEvent(id, new, migrations[id].progress)
               /\ Len(StatusEvents(sent'[id])) = 1
               /\ \A c \in Connected(id) :
                    /\ Last(conns'[c].recv) = FinalEvent(id, new, migrations[id].progress)
                    /\ conns'[c].recv = conns[c].recv \o sent'[id]]_vars

\* the pgloader output lines among the entries of one continuation
PgloaderLines(evs) ==
  LET es == SelectSeq(evs, LAMBDA e : e.type = "log" /\ e.message[1] = "pgloader: ")
  IN [i \in DOMAIN es |-> es[i].message[2]]

\* an error marker, a connection-failure phrase or the zero-rows pattern
FailureSignature(lines) ==
  \/ \E i \in DOMAIN lines :
       lines[i] \in {"ERROR mysql:", "Failed to connect", "MySQL Error [1045]", "FATAL",
                     "Unhandled", "signal 11", "fetch meta data 0 0 0"}
  \/ \E i, j \in DOMAIN lines :
       /\ lines[i] = "table name errors rows bytes total time"
       /\ lines[j] = "fetch meta data 0"

TransferErrors ==
  {<<"pgloader migration failed: ", "pgloader reported an error (see logs above).">>,
   <<"pgloader migration failed: ",
     "pgloader finished but migrated 0 tables/rows (source DB empty or access denied).">>}

\* C11: when the transfer command exits with code 0 and its output carries a
\* known failure signature, the run is a transfer failure: it goes to
\* teardown and never to verification or export, a failed run never holds
\* an exported artifact, and when it ends the session is failed.
C11_SignatureFailsTransfer ==
  /\ [][\A id \in Registered : \A r \in DOMAIN runs[id] :
          (PgloaderExit(id, r) /\ FailureSignature(PgloaderLines(sent'[id])))
            => /\ runs'[id][r].pc = "composeV2"
               /\ runs'[id][r].error \in TransferErrors
               /\ runs'[id][r].cleanups = 1]_vars
  /\ [][\A id \in Registered : \A r \in DOMAIN runs[id] :
          runs[id][r].error \in TransferErrors
            => /\ runs'[id][r].error = runs[id][r].error
               /\ runs'[id][r].pc \in InTeardown
               /\ runs'[id][r].outputFile = null
               /\ (runs[id][r].pc # "done" /\ runs'[id][r].pc = "done")
                    => /\ migrations'[id].status = "failed"
                       /\ migrations'[id].error = runs[id][r].error]_vars

C11_Witness ==
  \E id \in Registered : \E r \in DOMAIN runs[id] :
    /\ runs[id][r].pc = "done"
    /\ runs[id][r].error \in TransferErrors
    /\ runs[id][r].cleanups = 1
    /\ migrations[id].status = "failed"
    /\ \E i \in DOMAIN logFile[id] : logFile[id][i].message = <<"pgloader: ", "Failed to connect">>

\* a session whose dump declares no database, with no fallback name configured
Nameless(id) ==
  /\ ~DeclaresCreate(migrations[id].uploadedFile)
  /\ ~DeclaresUse(migrations[id].uploadedFile)
  /\ world.DATABASE_NAME = "" /\ world.MYSQL_DATABASE = ""

ValidationErrors ==
  {<<"Invalid SQL dump">>,
   <<"Unable to determine MySQL database name from dump or environment variables">>}

Logged(evs, r, text) ==
  SelectSeq(evs, LAMBDA e : e.type = "log" /\ e.run = r /\ e.message[1] = text)

PollPcs == {"inspectMysql", "inspectPg", "pollSleep"}
TimeoutWarning == "Database readiness timeout - proceeding anyway"

\* C13: the attempt that finds both containers healthy ends the polling: the
\* run leaves the loop without a timeout warning and never queries readiness
\* again; the loop is left otherwise only when the attempts are used up, with
\* exactly one timeout warning and on to the transfer, never to a failure.
C13_PollEnds ==
  [][\A id \in Registered : \A r \in DOMAIN runs[id] :
       LET old == runs[id][r]
           new == runs'[id][r]
           healthy == Len(Logged(sent'[id], r, "MySQL/PostgreSQL healthy after"))
           timeouts == Len(Logged(sent'[id], r, TimeoutWarning))
       IN new # old =>
            /\ (old.pc = "inspectPg" /\ (healthy > 0 \/ ~Fault("health")))
                 => new.pc = "mountCheck" /\ timeouts = 0 /\ old.mysqlHealth = "healthy"
            /\ (old.pc \notin PollPcs) =>
                 /\ timeouts = 0
                 /\ new.pc \in PollPcs => old.pc = "up" /\ new.pc = "inspectMysql"
            /\ (old.pc \in PollPcs /\ new.pc \notin PollPcs)
                 => \/ old.pc = "inspectPg" /\ new.pc = "mountCheck"
                       /\ healthy = 1 /\ timeouts = 0
                    \/ old.pc = "pollSleep" /\ old.attempt = MaxAttempts
                       /\ new.pc = "pgloader" /\ new.error = null
                       /\ healthy = 0 /\ timeouts = 1
            /\ (old.pc \in PollPcs /\ new.pc \in PollPcs) => healthy = 0 /\ timeouts = 0]_vars

\* a run that found the containers healthy at its second attempt, and went on
C13_Witness ==
  \E id \in Registered : \E r \in DOMAIN runs[id] :
    /\ runs[id][r].pc = "pgloader"
    /\ \E i \in DOMAIN logFile[id] :
         logFile[id][i].message = <<"MySQL/PostgreSQL healthy after", "2">>
    /\ \A i \in DOMAIN logFile[id] : logFile[id][i].message # <<TimeoutWarning>>

\* percent-decoding as a URI parser does it: "%" and two hexadecimal digits
\* stand for the character with that code, any other character for itself
PercentCodes ==
  {<<HexCode(ReservedChars[i]), ReservedChars[i]>> : i \in DOMAIN ReservedChars}
    \cup {<<(<<"2", "5">>), "%">>}

RECURSIVE percentDecode(_)
percentDecode(s) ==
  IF s = <<>> THEN <<>>
  ELSE IF Len(s) >= 3 /\ s[1] = "%" /\ \E pc \in PercentCodes : pc[1] = <<s[2], s[3]>>
  THEN <<(CHOOSE pc \in PercentCodes : pc[1] = <<s[2], s[3]>>)[2]>>
         \o percentDecode(SubSeq(s, 4, Len(s)))
  ELSE <<s[1]>> \o percentDecode(Tail(s))

\* C14: for a password that holds every reserved character, the escaped form
\* written to the loader configuration holds none of them, and
\* percent-decoding it gives back the password.
C14_CredentialsRoundTrip ==
  \A id \in Sessions :
    (files[id].loadFile /\ Range(ReservedChars) \subseteq Range(world.MYSQL_ROOT_PASSWORD))
      => /\ Range(files[id].loadPassword) \cap Range(ReservedChars) = {}
         /\ percentDecode(files[id].loadPassword) = world.MYSQL_ROOT_PASSWORD

\* C15: two sessions with distinct ids have distinct compose projects,
\* containers, dump directories, config files, output artifacts and log
\* files, so that two pipelines never act on the same named resource.
C15_DistinctResources ==
  \A a \in Registered : \A b \in Registered \ {a} :
    /\ ProjectName(a) # ProjectName(b)
    /\ ContainerNames(a) \cap ContainerNames(b) = {}
    /\ DumpDir(a) # DumpDir(b)
    /\ ConfigPath(a) # ConfigPath(b)
    /\ OutputPath(a) # OutputPath(b)
    /\ migrations[a].logPath # migrations[b].logPath
    /\ (migrations[a].outputFile # null) => migrations[a].outputFile # migrations[b].outputFile

\* two sessions whose pipelines run at the same time
C15_Witness ==
  \E a \in Registered : \E b \in Registered \ {a} :
    /\ Active(a) # {} /\ Active(b) # {}
    /\ migrations[a].logPath # migrations[b].logPath

\* what a session shows: its record, its log file, its artifacts, its runs
\* and the streams of the connections that subscribed to it
Observable(id) ==
  [m |-> IF id \in Registered THEN {migrations[id]} ELSE {},
   log |-> logFile[id], files |-> files[id], runs |-> runs[id],
   streams |-> {<<c, conns[c].recv>> : c \in {d \in DOMAIN conns : conns[d].sid = id}}]

\* C16: a step of one session leaves everything the other session shows
\* unchanged (its status, progress, error, outputFile, log and streams), and
\* a stream grows only by the events its own session has just emitted; so
\* what a session shows does not depend on how the other one fares.
C16_SessionsIndependent ==
  [][/\ \A a \in Sessions : \A b \in Sessions \ {a} :
          Observable(a)' # Observable(a) => Observable(b)' = Observable(b)
     /\ \A c \in DOMAIN conns :
          conns'[c].recv # conns[c].recv
            => /\ conns'[c].recv = conns[c].recv \o sent'[conns[c].sid]
               /\ runs'[conns[c].sid] # runs[conns[c].sid]
     /\ \A id \in Sessions :
          logFile'[id] # logFile[id] => runs'[id] # runs[id]]_vars

\* one session has failed while the other, observed by a client, is running
C16_Witness ==
  \E a \in Registered : \E b \in Registered \ {a} :
    /\ migrations[a].status = "failed" /\ logFile[a] # <<>>
    /\ migrations[b].status = "running" /\ Active(b) # {}
    /\ sent[b] # <<>>
    /\ \E c \in Observers(b) : IsSuffix(sent[b], conns[c].recv)

\* C17: the progress of a session is always an integer from 0 to 100, and no
\* step taken while the session is running lowers it.
C17_ProgressBounded ==
  /\ [](\A id \in Registered : migrations[id].progress \in 0..100)
  /\ [][\A id \in Registered :
          migrations[id].status = "running"
            => migrations'[id].progress >= migrations[id].progress]_vars

\* a run has ended and taken the progress of its session from 0 to 100
C17_Witness ==
  \E id \in Registered :
    /\ runs[id] # <<>> /\ Active(id) = {}
    /\ migrations[id].status = "completed" /\ migrations[id].progress = 100

\* C18: when every command exits, a session that is running eventually is
\* completed or failed, and once the clients have stopped starting runs every
\* run that was started has ended; no step removes a run or alters one that
\* has ended.
C18_RunningEnds ==
  /\ \A id \in Sessions :
       (id \in Registered /\ migrations[id].status = "running")
         ~> (id \in Registered /\ migrations[id].status \in {"completed", "failed"})
  /\ <>[](\A id \in Sessions : \A r \in DOMAIN runs[id] : runs[id][r].pc = "done")
  /\ [][\A id \in Sessions :
          /\ Len(runs'[id]) >= Len(runs[id])
          /\ \A r \in DOMAIN runs[id] :
               runs[id][r].pc = "done" => runs'[id][r] = runs[id][r]]_vars

\* a session that was running has ended, its run having gone through teardown
C18_Witness ==
  \E id \in Registered :
    /\ migrations[id].status \in {"completed", "failed"}
    /\ runs[id] # <<>>
    /\ \A r \in DOMAIN runs[id] : runs[id][r].pc = "done" /\ runs[id][r].cleanups > 0

\* the database a dump declares: the quoted name that follows its first
\* "create database", else the one that follows its first "use"
FirstQuotedAfter(dump, i) ==
  dump[Leftmost({j \in (i + 1)..Len(dump) : dump[j].quoted})].text

DeclaredName(dump) ==
  IF DeclaresCreate(dump)
  THEN FirstQuotedAfter(dump, Leftmost({i \in 1..(Len(dump) - 2) :
         /\ ~dump[i].quoted /\ dump[i].text \in {"CREATE", "create"}
         /\ ~dump[i + 1].quoted /\ dump[i + 1].text \in {"DATABASE", "database"}}))
  ELSE IF DeclaresUse(dump)
  THEN FirstQuotedAfter(dump, Leftmost({i \in 1..(Len(dump) - 1) :
         ~dump[i].quoted /\ dump[i].text \in {"USE", "use"}}))
  ELSE IF world.DATABASE_NAME # "" THEN world.DATABASE_NAME
  ELSE world.MYSQL_DATABASE

\* C19: the database name a run resolves is the one the dump declares with
\* "create database", else the one it declares with "use", else
\* DATABASE_NAME, else MYSQL_DATABASE; the run fails for want of a name only
\* when none of the four gives one.
C19_NamePriority ==
  \A id \in Registered :
    LET dump == migrations[id].uploadedFile
    IN \A k \in DOMAIN logFile[id] :
         LET e == logFile[id][k]
         IN /\ e.message[1] = "Detected MySQL database name: "
                 => e.message[2] = DeclaredName(dump)
            /\ e.message[1] = "Migration failed: " /\ Len(e.message) > 1
                 /\ e.message[2] = "Unable to determine MySQL database name from dump or environment variables"
                 => DeclaredName(dump) = ""

\* the stage a run is in while it awaits at pc (prepare and generate config,
\* stages 1 and 2, await nothing)
ReadinessPcs == {"inspectMysql", "inspectPg", "pollSleep", "mountCheck", "grace", "mysqlCheck"}
TeardownPcs == {"composeV2", "composeV1", "down"}
StageRank(pc) ==
  CASE pc = "up" -> 3
    [] pc \in ReadinessPcs -> 4
    [] pc = "pgloader" -> 5
    [] pc = "verifyPg" -> 6
    [] pc = "pgdump" -> 7
    [] OTHER -> 8

\* the entry with which a stage announces itself (verify target logs none)
StageMarks ==
  <<"Preparing MySQL dump file...", "Creating pgloader configuration...",
    "Starting Docker containers...", "Waiting for databases to be ready...",
    "Starting pgloader migration...", "Exporting PostgreSQL dump...">>

MarkOf(e) ==
  IF \E k \in DOMAIN StageMarks : e.message[1] = StageMarks[k]
  THEN CHOOSE k \in DOMAIN StageMarks : e.message[1] = StageMarks[k]
  ELSE IF e.message[1] = "Migration failed: " THEN 99 ELSE 0

\* the stage marks of run r that the log holds, in order
RunMarks(log, r) ==
  LET es == SelectSeq(log, LAMBDA e : e.type = "log" /\ e.run = r /\ MarkOf(e) > 0)
  IN [k \in DOMAIN es |-> MarkOf(es[k])]

\* C20: a run goes through its stages in order, one after the other, and the
\* first fatal failure takes it to teardown: a run that has failed awaits
\* nothing but teardown, and its log holds no stage after the failure.
C20_StagesInOrder ==
  /\ [](\A id \in Sessions : \A r \in DOMAIN runs[id] :
         /\ runs[id][r].error # null => runs[id][r].pc \in TeardownPcs \cup {"done"}
         /\ LET ms == RunMarks(logFile[id], r)
            IN \A k \in 1..(Len(ms) - 1) :
                 ms[k] # 99 /\ (ms[k + 1] = ms[k] + 1 \/ ms[k + 1] = 99))
  /\ [][\A id \in Sessions : \A r \in DOMAIN runs'[id] :
          LET new == runs'[id][r].pc
          IN IF r \in DOMAIN runs[id]
             THEN LET old == runs[id][r].pc
                  IN \/ new = old
                     \/ old \notin TeardownPcs \cup {"done"}
                          /\ (\/ StageRank(new) = StageRank(old) + 1
                              \/ new \in TeardownPcs
                              \/ (StageRank(new) = 4 /\ StageRank(old) = 4))
                     \/ old \in TeardownPcs /\ new \in TeardownPcs \cup {"done"}
             ELSE new \in {"up"} \cup TeardownPcs]_vars

\* a run that was provisioned and failed in the transfer: it has ended and
\* its log holds the failure after the transfer and no export
C20_Witness ==
  \E id \in Sessions : \E r \in DOMAIN runs[id] :
    LET ms == RunMarks(logFile[id], r)
    IN /\ runs[id][r].pc = "done" /\ runs[id][r].error # null
       /\ ms = <<1, 2, 3, 4, 5, 99>>

\* C21: when required settings are missing, every run fails with the error
\* that names each of them, and it never awaits the provisioning command or
\* any later stage: it goes from the configuration stage to teardown.
C21_MissingSettingsFailEarly ==
  world.envMissing # {} =>
    \A id \in Sessions : \A r \in DOMAIN runs[id] :
      LET e == runs[id][r].error
      IN /\ runs[id][r].pc \in TeardownPcs \cup {"done"}
         /\ Len(e) = 1 + Cardinality(world.envMissing)
         /\ e[1] = "Missing required environment variables: "
         /\ {e[k] : k \in 2..Len(e)} = world.envMissing
         /\ 3 \notin Range(RunMarks(logFile[id], r))

\* a run in an environment that lacks two settings has failed and ended
C21_Witness ==
  /\ Cardinality(world.envMissing) > 1
  /\ \E id \in Registered : \E r \in DOMAIN runs[id] :
       /\ runs[id][r].pc = "done" /\ runs[id][r].error # null
       /\ migrations[id].status = "failed"

\* C22: in a generated loader configuration neither the user name nor the
\* password of the source URI or of the target URI holds a reserved
\* character.
C22_CredentialsEscaped ==
  \A id \in Sessions :
    files[id].loadFile =>
      \A part \in {files[id].loadUser, files[id].loadPassword,
                    files[id].loadPgUser, files[id].loadPgPassword} :
        Range(part) \cap Range(ReservedChars) = {}

\* C23: once the readiness stage polls, no outcome of a health query, of the
\* mount check or of the content check fails the run: the run stays in the
\* stage or goes on to the transfer, without an error, and never polls more
\* than maxAttempts rounds.
C23_ReadinessNeverFails ==
  /\ [](\A id \in Sessions : \A r \in DOMAIN runs[id] :
         runs[id][r].pc \in ReadinessPcs
           => runs[id][r].error = null /\ runs[id][r].attempt \in 1..MaxAttempts)
  /\ [][\A id \in Sessions : \A r \in DOMAIN runs[id] :
          runs[id][r].pc \in ReadinessPcs
            => /\ runs'[id][r].pc \in ReadinessPcs \cup {"pgloader"}
               /\ runs'[id][r].error = null]_vars

\* a run whose content check could not be run has gone on to the transfer
C23_Witness ==
  \E id \in Sessions : \E r \in DOMAIN runs[id] :
    /\ runs[id][r].pc = "pgloader" /\ runs[id][r].error = null
    /\ Logged(logFile[id], r, "Could not verify MySQL DB/tables: ") # <<>>

\* C24: whatever the verification of the target finds (relations, none, or
\* a query that fails), the run goes on to the export without an error, and
\* the step logs one warning at most and no error entry.
C24_VerifyNeverAborts ==
  [][\A id \in Sessions : \A r \in DOMAIN runs[id] :
       (runs[id][r].pc = "verifyPg" /\ runs'[id][r] # runs[id][r])
         => /\ runs'[id][r].pc = "pgdump"
            /\ runs'[id][r].error = null
            /\ LET es == SelectSeq(sent'[id], LAMBDA e : e.type = "log" /\ e.run = r)
               IN /\ Len(SelectSeq(es, LAMBDA e : e.level = "WARN")) <= 1
                  /\ SelectSeq(es, LAMBDA e : e.level = "ERROR") = <<>>]_vars

\* a run whose target held no relation, and one whose query failed, awaits
\* the export
C24_Witness ==
  \E id \in Sessions : \E r \in DOMAIN runs[id] :
    /\ runs[id][r].pc = "pgdump" /\ runs[id][r].error = null
    /\ \/ Logged(logFile[id], r, "Postgres has no tables.") # <<>>
       \/ Logged(logFile[id], r, "Could not verify Postgres tables: ") # <<>>

\* C25: no step of the teardown changes the error or the output of its run
\* or logs an error entry, whatever the compose commands do; and when the
\* run ends, the session is completed with the output of the run if the run
\* has no error, and failed with the error of the run otherwise.
C25_TeardownKeepsOutcome ==
  [][\A id \in Sessions : \A r \in DOMAIN runs[id] :
       LET old == runs[id][r]
           new == runs'[id][r]
           es == SelectSeq(sent'[id], LAMBDA e : e.type = "log" /\ e.run = r)
       IN (old.pc \in TeardownPcs /\ new # old)
            => /\ new.error = old.error /\ new.outputFile = old.outputFile
               /\ new.pc \in TeardownPcs \cup {"done"}
               /\ SelectSeq(es, LAMBDA e : e.level = "ERROR") = <<>>
               /\ new.pc = "done" =>
                    IF old.error = null
                    THEN /\ migrations'[id].status = "completed"
                         /\ migrations'[id].outputFile = old.outputFile
                         /\ old.outputFile # null
                    ELSE /\ migrations'[id].status = "failed"
                         /\ migrations'[id].error = old.error]_vars

\* a run whose stages all succeeded and whose teardown failed: the session
\* is completed, and the log holds the warning of the teardown
C25_Witness ==
  \E id \in Registered : \E r \in DOMAIN runs[id] :
    /\ runs[id][r].pc = "done" /\ runs[id][r].error = null
    /\ migrations[id].status = "completed" /\ migrations[id].outputFile # null
    /\ Logged(logFile[id], r, "Docker cleanup failed or skipped") # <<>>

\* the responses in migration.clients, and those of them that are broken
Listed(id) == {cl.res : cl \in migrations[id].clients}
Broken(id) == {c \in Listed(id) : conns[c].state # "open"}

\* C26: when a continuation of a run emits events while a client of the
\* session has a broken response, every client with an open response is
\* written each event, the broken one is written nothing and stays in
\* migration.clients, and the run moves on.
C26_DeliveryFailureContained ==
  [][\A id \in Registered :
       (runs'[id] # runs[id] /\ Broken(id) # {})
         => /\ migrations'[id].clients = migrations[id].clients
            /\ \A c \in Listed(id) :
                 /\ conns'[c].state = conns[c].state
                 /\ conns'[c].recv = IF c \in Broken(id) THEN conns[c].recv
                                     ELSE conns[c].recv \o sent'[id]]_vars

\* a run has ended while one client was broken and another one open: the
\* open one holds the final status event, the broken one is still listed
C26_Witness ==
  \E id \in Registered :
    /\ Broken(id) # {} /\ Listed(id) \ Broken(id) # {}
    /\ runs[id] # <<>> /\ Active(id) = {} /\ sent[id] # <<>>
    /\ Last(sent[id]).type = "status"
    /\ \A c \in Listed(id) \ Broken(id) : IsSuffix(sent[id], conns[c].recv)
    /\ \E c \in Listed(id) \ Broken(id) : \E b \in Broken(id) : b < c

\* C27: a subscription registers the client and writes it, in this order,
\* one status event with the status and progress of the session and then
\* every entry of the log file in the order of the file; after that the
\* response grows only by the events a continuation of a run has just
\* emitted, in their order.
C27_SubscribeOrder ==
  [][\A c \in DOMAIN conns' :
       LET id == conns'[c].sid
       IN IF c \notin DOMAIN conns
          THEN /\ conns'[c].recv =
                    <<[type |-> "status",
                       data |-> [status |-> migrations[id].status,
                                 progress |-> migrations[id].progress]]>>
                      \o logFile[id]
               /\ \E cl \in migrations'[id].clients : cl.res = c
               /\ logFile'[id] = logFile[id] /\ runs'[id] = runs[id]
          ELSE \/ conns'[c].recv = conns[c].recv
               \/ /\ conns'[c].recv = conns[c].recv \o sent'[id]
                  /\ runs'[id] # runs[id]]_vars

\* a client that subscribed while the run was on holds the snapshot, the
\* entries logged before it subscribed, and the final status event
C27_Witness ==
  \E c \in DOMAIN conns :
    /\ Len(conns[c].recv) > 3
    /\ conns[c].recv[1].type = "status" /\ conns[c].recv[1].data.status = "running"
    /\ conns[c].recv[2].type = "log"
    /\ Last(conns[c].recv).type = "status"
    /\ Last(conns[c].recv).data.status \in {"completed", "failed"}

\* C28: when the response of a client is closed, that client and no other
\* leaves migration.clients, and the status, the progress, the log and the
\* runs of the session stay as they are.
C28_DisconnectRemovesOne ==
  [][\A c \in DOMAIN conns :
       (conns[c].state # "closed" /\ conns'[c].state = "closed")
         => LET id == conns[c].sid
            IN /\ migrations'[id].clients = {cl \in migrations[id].clients : cl.res # c}
               /\ migrations'[id].status = migrations[id].status
               /\ migrations'[id].progress = migrations[id].progress
               /\ logFile'[id] = logFile[id] /\ runs'[id] = runs[id]]_vars

\* C29: a download is answered with the artifact only when the session is
\* registered and completed; any other download is answered 404 and sends
\* nothing.
C29_ResultOnlyWhenCompleted ==
  [][\A id \in Sessions :
       (/\ requests' = requests + 1 /\ validating' = validating
        /\ lastResp'.op = "download" /\ lastResp'.id = id)
         => IF id \in Registered /\ migrations[id].status = "completed"
            THEN lastResp'.code \in {200, 404}
            ELSE lastResp'.code = 404 /\ downloads' = downloads]_vars

\* C30: when the response of a download has been sent in full, the dump
\* directory, the config file and the artifact of the session are removed
\* and outputFile is cleared, once: the close that follows removes nothing
\* more; a download that is closed before it was sent in full removes
\* nothing; and every download of the session asked for after a cleanup is
\* answered 404.
C30_CleanupOnceAfterDownload ==
  [][/\ \A d \in DOMAIN downloads :
          LET id == downloads[d].sid
              old == downloads[d].state
              new == downloads'[d].state
          IN /\ (old = "sending" /\ new = "finished")
                  => /\ ~files'[id].dumpDir /\ ~files'[id].dump /\ ~files'[id].loadFile
                     /\ ~files'[id].output \/ migrations[id].outputFile = null
                     /\ migrations'[id].outputFile = null
             /\ (old # new /\ new = "closed")
                  => files'[id] = files[id] /\ migrations'[id] = migrations[id]
     /\ \A id \in Sessions :
          (/\ requests' = requests + 1 /\ validating' = validating
           /\ lastResp'.op = "download" /\ lastResp'.id = id
           /\ \E d \in DOMAIN downloads : downloads[d].sid = id /\ downloads[d].cleaned)
            => lastResp'.code = 404]_vars

\* C31: the promise of an awaited command is settled by the first call of
\* resolve or reject alone: it is resolved if and only if the child started
\* and exited with code 0; for a child that started it carries the exit
\* code and all the child wrote to stdout and to stderr, resolved or
\* rejected; for a child that did not start it is rejected with the spawn
\* Error itself, which has a message and no captured output.
C31_ExecSettlesOnce ==
  \A id \in Sessions : \A r \in DOMAIN runs[id] :
    LET c == runs[id][r].child
        p == runs[id][r].promise
    IN p.state # "pending" =>
         /\ p.state = "resolved" <=> (c.started /\ c.code = 0)
         /\ c.started => /\ ~p.isError /\ p.message = <<>>
                          /\ p.code = c.code
                          /\ p.stdout = c.stdout /\ p.stderr = c.stderr
         /\ ~c.started => /\ p.state = "rejected" /\ p.isError
                           /\ p.message # <<>> /\ p.stdout = <<>> /\ p.stderr = <<>>

\* a run has awaited a command that could not be started, and one that
\* exited with a code other than 0
C31_Witness ==
  \E id \in Sessions : \E r \in DOMAIN runs[id] :
    /\ runs[id][r].promise.state = "rejected"
    /\ \/ ~runs[id][r].child.started
       \/ runs[id][r].child.code # 0 /\ runs[id][r].promise.stderr = <<"e1", "e2">>

\* the log entries of run r among evs
OfRun(evs, r) == SelectSeq(evs, LAMBDA e : e.type = "log" /\ e.run = r)

\* C32 (a): while a run of a session has not returned from its teardown,
\* the status of the session is running.
C32_RunningWhileActive ==
  \A id \in Registered : Active(id) # {} => migrations[id].status = "running"

\* C32 (b): a session leaves the status running only in the step in which a
\* run returns from its teardown; that step hands the clients the log
\* entries of the teardown followed by one status event, the last; and no
\* entry of a run that has ended is appended to the log or delivered later.
C32_TerminalAfterTeardown ==
  [][\A id \in Registered :
       /\ (migrations[id].status = "running" /\ migrations'[id].status # "running")
            => \E r \in DOMAIN runs[id] :
                 /\ runs[id][r].pc \in TeardownPcs /\ runs'[id][r].pc = "done"
                 /\ runs'[id][r].cleanups >= 1
                 /\ migrations'[id].status \in {"completed", "failed"}
                 /\ Len(StatusEvents(sent'[id])) = 1
                 /\ Last(sent'[id]).type = "status"
                 /\ Last(sent'[id]).data.status = migrations'[id].status
                 /\ OfRun(sent'[id], r) # <<>>
       /\ \A r \in DOMAIN runs[id] :
            runs[id][r].pc = "done"
              => /\ Len(OfRun(logFile'[id], r)) <= Len(OfRun(logFile[id], r))
                 /\ \A c \in DOMAIN conns :
                      conns[c].sid = id =>
                        Len(OfRun(conns'[c].recv, r)) <= Len(OfRun(conns[c].recv, r))]_vars

\* C32: within one run the session stays running until the teardown has
\* returned: the terminal status is assigned and the final status event is
\* broadcast only then, and no log entry of the run follows that event.
C32_RunningUntilTeardown == []C32_RunningWhileActive /\ C32_TerminalAfterTeardown

\* C33: the first event written to an observer that subscribes to a failed
\* session carries the status failed and the error message of the session,
\* and to a completed session the status completed and the name of the
\* output file: what the final status event told the observers connected
\* when the run ended.
C33_LateSnapshotComplete ==
  [][\A id \in Registered :
       (/\ Len(conns') = Len(conns) + 1
        /\ conns'[Len(conns')].sid = id
        /\ migrations[id].status \in {"completed", "failed"})
         => LET d == conns'[Len(conns')].recv[1].data
            IN /\ d.status = migrations[id].status
               /\ IF d.status = "failed"
                  THEN "error" \in DOMAIN d /\ d.error = migrations[id].error
                  ELSE /\ "outputFile" \in DOMAIN d
                       /\ d.outputFile = Basename(migrations[id].outputFile)]_vars

\* C34: no step taken while the status of a session is running removes
\* the dump directory, the prepared dump or the generated pgloader
\* configuration of that session.
C34_InputsKeptWhileRunning ==
  [][\A id \in Registered :
       migrations[id].status = "running"
         => /\ files[id].dumpDir => files'[id].dumpDir
            /\ files[id].dump => files'[id].dump
            /\ files[id].loadFile => files'[id].loadFile]_vars

\* C35: for every password over an alphabet that holds reserved characters,
\* the percent sign and hexadecimal digits, percent-decoding the password
\* written to the loader configuration gives back the password of the
\* environment, and no other password of the alphabet has the same escaped
\* form; the empty password is escaped to the empty string.
C35_EncodingInjective ==
  /\ encodeCredentials(<<>>) = <<>>
  /\ \A id \in Sessions :
       files[id].loadFile
         => /\ files[id].loadPassword = encodeCredentials(world.MYSQL_ROOT_PASSWORD)
            /\ percentDecode(files[id].loadPassword) = world.MYSQL_ROOT_PASSWORD
            /\ \A q \in CredPasswords :
                 encodeCredentials(q) = files[id].loadPassword
                   => q = world.MYSQL_ROOT_PASSWORD

\* C36: a start, subscribe, status or download request that names an id
\* which is not in the registry is answered 404 and changes nothing: the
\* registry, the suspended start handlers, the runs, the log files, the
\* files on disk, the subscriptions and the downloads stay as they are.
C36_UnknownIdNotFound ==
  [][\A id \in Sessions \ Registered :
       (StartRequest(id) \/ Subscribe(id) \/ Status(id) \/ Download(id))
         => /\ lastResp'.code = 404 /\ lastResp'.id = id
            /\ lastResp'.op \in {"start", "logs", "status", "download"}
            /\ UNCHANGED <<migrations, validating, runs, logFile, files, conns,
                           lastId, downloads, sent>>]_vars

\* a session is registered, and a status request naming another id, which
\* is not, was answered 404
C36_Witness ==
  /\ Registered # {}
  /\ lastResp.id \in Sessions \ Registered
  /\ lastResp.op = "status" /\ lastResp.code = 404

====
